---- MODULE Spec2Model ----
(***************************************************************************)
(* A model of mogp_emulator.MultiOutputGP (src/mogp_emulator/              *)
(* MultiOutputGP.py): the collection of independent single-output          *)
(* Gaussian-process emulators, its constructor, its accessors and the two  *)
(* fan-out/fan-in operations learn_hyperparameters (fit_all) and predict   *)
(* (predict_all) over a multiprocessing.Pool.                              *)
(*                                                                         *)
(* Arrays are numpy arrays: a shape and a flat row-major data buffer.      *)
(* Python's None is the empty tuple and a present optional value v is the  *)
(* one-element tuple <<v>>.                                                *)
(*                                                                         *)
(* gp_emulator.GaussianProcess, the single-output engine, is an external   *)
(* collaborator: its three methods are modelled from the interface the     *)
(* specification states for it (the GP_ definitions).                      *)
(***************************************************************************)
EXTENDS Integers, Sequences, FiniteSets, TLC

\* ------------------------------------------------------------------ bounds
\* Largest number of target rows (emulators) of a collection under Spec.
MaxEmulators == 2
\* Largest length of one array dimension drawn by the constructor.
MaxDim == 2
\* Largest rank of an array drawn by the constructor or passed to predict.
MaxRank == 3
\* Largest number of input variables D of a collection under Spec.
MaxD == 1
\* Largest number of query points of a valid predict call.
MaxQuery == 1
\* Largest number of Pools created in one behaviour: no call is made past it.
MaxPools == 2
\* os.cpu_count(): the size of a Pool created with processes=None.
CpuCount == 2

\* ------------------------------------------------------------ Python values
None == <<>>
Some(v) == <<v>>

\* The score gp_emulator reports when every attempt of a fit failed.
Sentinel == 9999

RECURSIVE Prod(_)
Prod(shape) == IF shape = <<>> THEN 1 ELSE Head(shape) * Prod(Tail(shape))

\* An ndarray of the given shape whose k-th element (row-major) is base + k.
Array(shape, base) ==
    [shape |-> shape, data |-> [k \in 1..Prod(shape) |-> base + k]]

ShapesOfRank(r, maxdim) == [1..r -> 0..maxdim]
ShapesUpTo(maxrank, maxdim) == UNION {ShapesOfRank(r, maxdim) : r \in 0..maxrank}

\* numpy.reshape(a, shape): the same buffer seen under another shape.
NpReshape(a, shape) == [shape |-> shape, data |-> a.data]

\* a[i] for an array of rank >= 1 (one step of "for row in a"), i from 1.
NpRow(a, i) ==
    LET rest == Tail(a.shape)
        w == Prod(rest)
    IN [shape |-> rest, data |-> SubSeq(a.data, (i - 1) * w + 1, i * w)]

\* list(a): the rows of an array, in order.
NpRows(a) == [i \in 1..a.shape[1] |-> NpRow(a, i)]

RECURSIVE Concat(_)
Concat(seqs) == IF seqs = <<>> THEN <<>> ELSE Head(seqs) \o Concat(Tail(seqs))

\* Faulty variant of NpStack: the arrays laid side by side along a new last axis, as
\* numpy.stack(list, axis=-1) would: the buffer is interleaved.
NpStackLastAxis(list) ==
    LET w == Prod(list[1].shape) IN
    [shape |-> list[1].shape \o <<Len(list)>>,
     data |-> [k \in 1..(w * Len(list)) |->
                  list[((k - 1) % Len(list)) + 1].data[((k - 1) \div Len(list)) + 1]]]

\* numpy.array(list of equally shaped arrays): stacked along a new first axis.
NpStack(list) ==
    [shape |-> <<Len(list)>> \o list[1].shape,
     data |-> Concat([i \in 1..Len(list) |-> list[i].data])]

\* ------------------------------------------------------------------- state
VARIABLES
    ctor,       \* the constructor's arguments [inputs, targets]; None before it ran
    built,      \* "no": not constructed, "yes": constructed, "error": __init__ raised
    emulators,  \* self.emulators: the engines, in order (<<>> while unset)
    n_emulators, \* self.n_emulators (0 while unset)
    n,          \* self.n (0 while unset)
    D,          \* self.D (0 while unset)
    acc,        \* what the last accessor call returned: None or <<name, value>>
    pc,         \* where the caller is: "idle", "fit_wait", "fit_sync", "predict_wait"
    args,       \* the arguments of the current / most recent call; None before any
    pools,      \* number of Pool objects created and never closed or terminated
    p,          \* the current call's local Pool: None or <<[processes |-> k]>>
    tasks,      \* the tasks the current / most recent call handed to starmap
    order,      \* the indices of those tasks in the order they finished
    likelihood_theta_vals, \* learn_hyperparameters's local list, None while unset
    synced,     \* how many engines the loop of lines 207-208 has gone through
    ret,        \* outcome of the most recent call, None while in progress / none yet
    other       \* a predict call made on the same object by a second thread

vars == <<ctor, built, emulators, n_emulators, n, D, acc, pc, args,
          pools, p, tasks, order, likelihood_theta_vals, synced, ret, other>>

\* The second thread before it has called anything.
NoOther == [pc |-> "idle", testing |-> None, tasks |-> <<>>, ret |-> None]

self_vars == <<emulators, n_emulators, n, D>>
call_vars == <<pc, args, pools, p, tasks, order, likelihood_theta_vals,
               synced, ret>>

\* ------------------------------------------- the engine (GaussianProcess)
\* GaussianProcess(inputs, single_target): an unfitted engine bound to the
\* shared design matrix and one target row.
GaussianProcess(inputs, single_target) ==
    [inputs |-> inputs, targets |-> single_target, theta |-> None]

\* Identities of the hyperparameter vectors an optimisation can end at.
ThetaIds == {1, 2}

\* The hyperparameter vectors of an engine: length D + 2.
ThetaVecs(gp) == {[len |-> gp.inputs.shape[2] + 2, id |-> k] : k \in ThetaIds}

\* The negative log-likelihood at theta (always below the sentinel).
Score(theta) == theta.id

\* GaussianProcess.learn_hyperparameters(gp, n_tries, verbose, x0): every
\* (score, theta) the call can return.  Each of the n_tries attempts either
\* converges to some theta or fails at some theta; the best converged attempt
\* wins (the earliest among equals), and when all fail the result is the
\* sentinel score with the parameters of the last attempt.
GP_learn_hyperparameters(gp, n_tries, x0) ==
    LET Attempt == [ok : BOOLEAN, theta : ThetaVecs(gp)]
        Good(att) == {i \in 1..n_tries : att[i].ok}
        Best(att) ==
            IF Good(att) # {}
            THEN LET i == CHOOSE i \in Good(att) :
                            \A j \in Good(att) :
                                \/ Score(att[i].theta) < Score(att[j].theta)
                                \/ Score(att[i].theta) = Score(att[j].theta) /\ i <= j
                 IN <<Score(att[i].theta), att[i].theta>>
            ELSE <<Sentinel, att[n_tries].theta>>
    IN {Best(att) : att \in [1..n_tries -> Attempt]}

\* gp.loglikelihood(theta): evaluating the likelihood at theta leaves the
\* engine holding theta as its current parameters.
GP_loglikelihood(gp, theta) == [gp EXCEPT !.theta = Some(theta)]

\* GaussianProcess.predict(gp, testing): (mean, variance, derivative) for every
\* query point, each value determined by the engine and the query point.
GP_predict(gp, testing) ==
    LET nq == testing.shape[1]
        Dg == gp.inputs.shape[2]
        key == <<gp.targets.data, gp.theta>>
    IN << [shape |-> <<nq>>,
           data |-> [q \in 1..nq |-> <<"mean", key, NpRow(testing, q).data>>]],
          [shape |-> <<nq>>,
           data |-> [q \in 1..nq |-> <<"unc", key, NpRow(testing, q).data>>]],
          [shape |-> <<nq, Dg>>,
           data |-> [k \in 1..(nq * Dg) |-> <<"deriv", key, k>>]] >>

\* ------------------------------------------------------------ construction
\* Lines 103-106: a 1D targets array becomes one row; a 2D one is kept; any
\* other rank raises ValueError.
TargetsRankOk(targets) == Len(targets.shape) \in {1, 2}

\* Faulty variant of TargetsReshape: a 1D targets array becomes one column.
TargetsReshapeColumn(targets) ==
    IF Len(targets.shape) = 1
    THEN NpReshape(targets, <<targets.shape[1], 1>>)
    ELSE targets

TargetsReshape(targets) ==
    IF Len(targets.shape) = 1
    THEN NpReshape(targets, <<1, targets.shape[1]>>)
    ELSE targets

\* Line 107.
InputsRankOk(inputs) == Len(inputs.shape) = 2

\* Faulty variant of ShapesAgree: the number of targets rows is compared instead of
\* their length.
ShapesAgreeFirstDim(inputs, targets) == inputs.shape[1] = targets.shape[1]

\* Line 109: inputs.shape[0] == targets.shape[1] (Python counts from 0).
ShapesAgree(inputs, targets) == inputs.shape[1] = targets.shape[2]

\* Line 112: one engine per row of targets, in row order.
MakeEmulators(inputs, targets) ==
    [i \in 1..targets.shape[1] |-> GaussianProcess(inputs, NpRows(targets)[i])]

\* Faulty variant of DerivedScalars: n_emulators is read from the wrong dimension of
\* targets.
DerivedScalarsWrongAxis(inputs, targets) ==
    [n_emulators |-> targets.shape[2], n |-> inputs.shape[1], D |-> inputs.shape[2]]

\* Lines 114-116.
DerivedScalars(inputs, targets) ==
    [n_emulators |-> targets.shape[1], n |-> inputs.shape[1], D |-> inputs.shape[2]]

\* MultiOutputGP.__init__(inputs, targets): the object it leaves, or the error.
MultiOutputGP_init(inputs, targets) ==
    IF ~TargetsRankOk(targets)
    THEN [ok |-> FALSE, error |-> "ValueError: targets must be either a 1D or 2D array"]
    ELSE LET t2 == TargetsReshape(targets) IN
         IF ~InputsRankOk(inputs)
         THEN [ok |-> FALSE, error |-> "ValueError: inputs must be 2D array"]
         ELSE IF ~ShapesAgree(inputs, t2)
         THEN [ok |-> FALSE, error |-> "ValueError: first dimension of inputs"]
         ELSE [ok |-> TRUE,
               emulators |-> MakeEmulators(inputs, t2),
               scalars |-> DerivedScalars(inputs, t2)]

\* The state a constructor call leaves.
Constructed(inputs, targets) ==
    LET r == MultiOutputGP_init(inputs, targets) IN
    /\ ctor' = Some([inputs |-> inputs, targets |-> targets])
    /\ IF r.ok
       THEN /\ built' = "yes"
            /\ emulators' = r.emulators
            /\ n_emulators' = r.scalars.n_emulators
            /\ n' = r.scalars.n
            /\ D' = r.scalars.D
            /\ ret' = None
       ELSE /\ built' = "error"
            /\ UNCHANGED self_vars
            /\ ret' = Some([op |-> "init", status |-> "error", error |-> r.error])

\* The arrays a constructor call is given.
InputArrays == {Array(s, 100) : s \in ShapesUpTo(MaxRank, MaxDim)}
TargetArrays == {Array(s, b) : s \in ShapesUpTo(MaxRank, MaxDim), b \in {0, 50}}

\* mogp = MultiOutputGP(inputs, targets)
Construct ==
    /\ built = "no"
    /\ \E inputs \in InputArrays, targets \in TargetArrays :
          Constructed(inputs, targets)
    /\ UNCHANGED <<other, acc, pc, args, pools, p, tasks, order,
                   likelihood_theta_vals, synced>>

\* ---------------------------------------------------------------- accessors
\* Lines 118-143; they are called between calls of the two operations.
CanCall == built = "yes" /\ pc = "idle"

get_n_emulators ==
    /\ CanCall
    /\ acc' = Some(<<"get_n_emulators", n_emulators>>)
    /\ UNCHANGED <<other, ctor, built, self_vars, call_vars>>

get_n ==
    /\ CanCall
    /\ acc' = Some(<<"get_n", n>>)
    /\ UNCHANGED <<other, ctor, built, self_vars, call_vars>>

get_D ==
    /\ CanCall
    /\ acc' = Some(<<"get_D", D>>)
    /\ UNCHANGED <<other, ctor, built, self_vars, call_vars>>

\* ------------------------------------------- specification: construction
Unbuilt ==
    /\ ctor = None /\ built = "no"
    /\ emulators = <<>> /\ n_emulators = 0 /\ n = 0 /\ D = 0
    /\ acc = None /\ pc = "idle" /\ args = None
    /\ pools = 0 /\ p = None /\ tasks = <<>> /\ order = <<>>
    /\ likelihood_theta_vals = None /\ synced = 0 /\ ret = None
    /\ other = NoOther

NextConstruct == Construct \/ get_n_emulators \/ get_n \/ get_D

SpecConstruct == Unbuilt /\ [][NextConstruct]_vars

\* ------------------------------------------------ the multiprocessing Pool
\* Pool(processes): None means one worker per processor.
Pool(processes) ==
    [processes |-> IF processes = None THEN CpuCount ELSE processes[1]]

\* One element of the list handed to starmap: the engine as pickled at the
\* call, whether a worker has taken it, how often it was run, its result.
Task(gp) == [gp |-> gp, st |-> "pending", runs |-> 0, res |-> None]

Running == {i \in 1..Len(tasks) : tasks[i].st = "running"}
Pending == {i \in 1..Len(tasks) : tasks[i].st = "pending"}
Raised == {i \in 1..Len(tasks) : tasks[i].st = "raised"}
\* Faulty variant of AllFinished: the result counts as ready as soon as one task
\* has raised, as in interpreters whose MapResult signals on the first failure.
AllFinishedOrRaised ==
    \/ Raised # {}
    \/ \A i \in 1..Len(tasks) : tasks[i].st \in {"done", "raised"}

\* starmap blocks until the result of the whole list is ready: every task has
\* returned or raised.
AllFinished == \A i \in 1..Len(tasks) : tasks[i].st \in {"done", "raised"}

\* Faulty variant of StarmapResult: the results in the order the tasks finished, as
\* imap_unordered would give them.
StarmapResultAsCompleted == [k \in 1..Len(tasks) |-> tasks[order[k]].res[1]]

\* What starmap returns when no task raised: the results in the order of the
\* list it was given, whatever the order the tasks finished in.
StarmapResult == [i \in 1..Len(tasks) |-> tasks[i].res[1]]

\* A free worker takes the next task of the queue and runs it in its own
\* process, on its own copy of the engine.
TaskStart ==
    /\ pc \in {"fit_wait", "predict_wait"}
    /\ Pending # {}
    /\ Cardinality(Running) < p[1].processes
    /\ LET i == CHOOSE i \in Pending : \A j \in Pending : i <= j IN
       tasks' = [tasks EXCEPT ![i].st = "running", ![i].runs = @ + 1]
    /\ UNCHANGED <<other, ctor, built, self_vars, acc, pc, args, pools, p, order,
                   likelihood_theta_vals, synced, ret>>

\* Faulty variant of FitTaskDone: the task runs on the collection's own engine
\* (threads instead of processes), so the fit shows on it as the task ends.
FitTaskDoneShared ==
    /\ pc = "fit_wait"
    /\ \E i \in Running :
         \E r \in GP_learn_hyperparameters(tasks[i].gp, args[1].n_tries, args[1].x0) :
            /\ tasks' = [tasks EXCEPT ![i].st = "done", ![i].res = Some(r)]
            /\ order' = Append(order, i)
            /\ emulators' = [emulators EXCEPT ![i] = GP_loglikelihood(@, r[2])]
    /\ UNCHANGED <<other, ctor, built, n_emulators, n, D, acc, pc, args, pools, p,
                   likelihood_theta_vals, synced, ret>>

\* A running fit task returns its (score, theta).
FitTaskDone ==
    /\ pc = "fit_wait"
    /\ \E i \in Running :
         \E r \in GP_learn_hyperparameters(tasks[i].gp, args[1].n_tries, args[1].x0) :
            /\ tasks' = [tasks EXCEPT ![i].st = "done", ![i].res = Some(r)]
            /\ order' = Append(order, i)
    /\ UNCHANGED <<other, ctor, built, self_vars, acc, pc, args, pools, p,
                   likelihood_theta_vals, synced, ret>>

\* A running predict task returns its (mean, variance, derivative).
PredictTaskDone ==
    /\ pc = "predict_wait"
    /\ \E i \in Running :
         /\ tasks' = [tasks EXCEPT ![i].st = "done",
                                   ![i].res = Some(GP_predict(tasks[i].gp, args[1].testing))]
         /\ order' = Append(order, i)
    /\ UNCHANGED <<other, ctor, built, self_vars, acc, pc, args, pools, p,
                   likelihood_theta_vals, synced, ret>>

\* Faulty variant of TaskRaise: a task that raised goes back to the queue once.
TaskRaiseRequeued ==
    /\ pc \in {"fit_wait", "predict_wait"}
    /\ \E i \in Running :
         /\ tasks' = [tasks EXCEPT ![i].st = IF tasks[i].runs < 2 THEN "pending"
                                             ELSE "raised"]
         /\ order' = IF tasks[i].runs < 2 THEN order ELSE Append(order, i)
    /\ UNCHANGED <<other, ctor, built, self_vars, acc, pc, args, pools, p,
                   likelihood_theta_vals, synced, ret>>

\* A running task raises an exception the engine does not catch.
TaskRaise ==
    /\ pc \in {"fit_wait", "predict_wait"}
    /\ \E i \in Running :
         /\ tasks' = [tasks EXCEPT ![i].st = "raised"]
         /\ order' = Append(order, i)
    /\ UNCHANGED <<other, ctor, built, self_vars, acc, pc, args, pools, p,
                   likelihood_theta_vals, synced, ret>>

\* ------------------------------------------------- learn_hyperparameters
\* Faulty variant of FitArgsOk: the assertion on processes is missing.
FitArgsOkNoProcessesCheck(n_tries, x0, processes) ==
    /\ n_tries > 0
    /\ x0 # None => x0[1].len = D + 2

\* Lines 189-195: the three assertions.
FitArgsOk(n_tries, x0, processes) ==
    /\ n_tries > 0
    /\ x0 # None => x0[1].len = D + 2
    /\ processes # None => processes[1] > 0

\* Line 201: one argument tuple per engine, in the order of self.emulators.
FitTaskList == [i \in 1..Len(emulators) |-> Task(emulators[i])]

Failure(op, error) ==
    Some([op |-> op, status |-> "error", error |-> error, value |-> None])
Success(op, value) ==
    Some([op |-> op, status |-> "ok", error |-> None, value |-> value])

\* The arguments a call is given: the valid ones and, for each assertion, ones
\* that break it.
NTriesArgs == {0, 1, 2}
ProcessesArgs == {None, Some(0), Some(1), Some(2)}
X0Args == {None} \cup {Some([len |-> l, id |-> 1]) : l \in (D + 1)..(D + 3)}

\* The caller may start an operation once it is done with what the previous
\* one returned or raised.
Ready == CanCall /\ ret = None

\* mogp.learn_hyperparameters(n_tries, verbose, x0, processes), lines 189-201:
\* from the call to the moment starmap has the task list.  verbose only
\* controls printing and is left out.
learn_hyperparameters ==
    /\ Ready
    /\ pools < MaxPools
    /\ \E n_tries \in NTriesArgs, x0 \in X0Args, processes \in ProcessesArgs :
         /\ args' = Some([op |-> "fit", n_tries |-> n_tries, x0 |-> x0,
                          processes |-> processes])
         /\ IF FitArgsOk(n_tries, x0, processes)
            THEN /\ p' = Some(Pool(processes))
                 /\ pools' = pools + 1
                 /\ tasks' = FitTaskList
                 /\ pc' = "fit_wait"
                 /\ ret' = None
            ELSE /\ ret' = Failure("fit", "AssertionError")
                 /\ tasks' = <<>>
                 /\ UNCHANGED <<p, pools, pc>>
    /\ acc' = None
    /\ order' = <<>>
    /\ likelihood_theta_vals' = None
    /\ synced' = 0
    /\ UNCHANGED <<other, ctor, built, self_vars>>

\* Faulty variant of FitGather: when a task raised, the results of the tasks
\* that did return are evaluated on their engines before the exception leaves.
FitGatherPartialSync ==
    /\ pc = "fit_wait"
    /\ AllFinished
    /\ IF Raised # {}
       THEN /\ ret' = Failure("fit", "TaskError")
            /\ pc' = "idle"
            /\ p' = None
            /\ emulators' = [i \in 1..Len(emulators) |->
                               IF tasks[i].st = "done"
                               THEN GP_loglikelihood(emulators[i], tasks[i].res[1][2])
                               ELSE emulators[i]]
            /\ UNCHANGED likelihood_theta_vals
       ELSE /\ likelihood_theta_vals' = Some(StarmapResult)
            /\ pc' = "fit_sync"
            /\ UNCHANGED <<ret, p, emulators>>
    /\ UNCHANGED <<other, ctor, built, n_emulators, n, D, acc, args, pools, tasks, order,
                   synced>>

\* Faulty variant of FitGather: a sentinel score is taken for a failed task.
FitGatherSentinelFatal ==
    /\ pc = "fit_wait"
    /\ AllFinished
    /\ IF Raised # {} \/ \E i \in 1..Len(tasks) : tasks[i].res[1][1] = Sentinel
       THEN /\ ret' = Failure("fit", "TaskError")
            /\ pc' = "idle"
            /\ p' = None
            /\ UNCHANGED likelihood_theta_vals
       ELSE /\ likelihood_theta_vals' = Some(StarmapResult)
            /\ pc' = "fit_sync"
            /\ UNCHANGED <<ret, p>>
    /\ UNCHANGED <<other, ctor, built, self_vars, acc, args, pools, tasks, order, synced>>

\* Lines 200-201: starmap returns once every task has finished; it re-raises
\* the exception of a task that raised, and otherwise returns the list.
FitGather ==
    /\ pc = "fit_wait"
    /\ AllFinished
    /\ IF Raised # {}
       THEN /\ ret' = Failure("fit", "TaskError")
            /\ pc' = "idle"
            /\ p' = None
            /\ UNCHANGED likelihood_theta_vals
       ELSE /\ likelihood_theta_vals' = Some(StarmapResult)
            /\ pc' = "fit_sync"
            /\ UNCHANGED <<ret, p>>
    /\ UNCHANGED <<other, ctor, built, self_vars, acc, args, pools, tasks, order, synced>>

\* zip(self.emulators, likelihood_theta_vals) stops at the shorter of the two.
SyncLength ==
    IF Len(emulators) < Len(likelihood_theta_vals[1])
    THEN Len(emulators) ELSE Len(likelihood_theta_vals[1])

\* Faulty variant of SyncOne: the loop body evaluates nothing on the engine.
SyncOneSkipped(k) == emulators

\* Line 208 for the pair at position k: emulator.loglikelihood(theta).
SyncOne(k) ==
    [emulators EXCEPT ![k] = GP_loglikelihood(@, likelihood_theta_vals[1][k][2])]

\* Lines 207-208: one iteration of the loop.
FitSync ==
    /\ pc = "fit_sync"
    /\ synced < SyncLength
    /\ emulators' = SyncOne(synced + 1)
    /\ synced' = synced + 1
    /\ UNCHANGED <<other, ctor, built, n_emulators, n, D, acc, pc, args, pools, p,
                   tasks, order, likelihood_theta_vals, ret>>

\* Faulty variant of FitReturn: the engines whose fit came back with the
\* sentinel score are taken out of the collection before returning.
FitReturnDroppingDegraded ==
    /\ pc = "fit_sync"
    /\ synced = SyncLength
    /\ ret' = Success("fit", likelihood_theta_vals[1])
    /\ LET keep == {i \in 1..Len(emulators) :
                       likelihood_theta_vals[1][i][1] # Sentinel}
           kth(k) == CHOOSE i \in keep : Cardinality({j \in keep : j <= i}) = k
       IN /\ emulators' = [k \in 1..Cardinality(keep) |-> emulators[kth(k)]]
          /\ n_emulators' = Cardinality(keep)
    /\ pc' = "idle"
    /\ p' = None
    /\ likelihood_theta_vals' = None
    /\ UNCHANGED <<other, ctor, built, n, D, acc, args, pools, tasks, order, synced>>

\* Line 209.  The Pool is a local that is dropped, not closed.
FitReturn ==
    /\ pc = "fit_sync"
    /\ synced = SyncLength
    /\ ret' = Success("fit", likelihood_theta_vals[1])
    /\ pc' = "idle"
    /\ p' = None
    /\ likelihood_theta_vals' = None
    /\ UNCHANGED <<other, ctor, built, self_vars, acc, args, pools, tasks, order, synced>>

\* ----------------------------------------------------------------- predict
\* Lines 216-220: the three assertions.
PredictArgsOk(testing, processes) ==
    /\ Len(testing.shape) = 2
    /\ testing.shape[2] = D
    /\ processes # None => processes[1] > 0

\* Line 224: one argument tuple per engine, in the order of self.emulators.
PredictTaskList == [i \in 1..Len(emulators) |-> Task(emulators[i])]

\* Line 228: zip(*predict_vals) regroups the triples into three tuples, each
\* made an array; with no triple there is nothing to unpack (ValueError).
Unpacked(predict_vals) ==
    [k \in 1..3 |-> NpStack([i \in 1..Len(predict_vals) |-> predict_vals[i][k]])]

\* Faulty variant of PredictValue: each flag suppresses the other slot: the parameters
\* come as (do_deriv, do_unc), the slots as (variance, derivative).
PredictValueFlagsSwapped(predict_vals, do_deriv, do_unc) ==
    LET u == Unpacked(predict_vals) IN
    << u[1],
       IF ~do_deriv THEN None ELSE u[2],
       IF ~do_unc THEN None ELSE u[3] >>

\* Lines 230-235: the returned triple.
PredictValue(predict_vals, do_deriv, do_unc) ==
    LET u == Unpacked(predict_vals) IN
    << u[1],
       IF ~do_unc THEN None ELSE u[2],
       IF ~do_deriv THEN None ELSE u[3] >>

TestDim == IF MaxQuery > MaxD THEN MaxQuery ELSE MaxD
TestingArrays == {Array(s, 200) : s \in ShapesUpTo(3, TestDim)}

\* mogp.predict(testing, do_deriv, do_unc, processes), lines 215-224: from the
\* call to the moment starmap has the task list.
predict ==
    /\ Ready
    /\ pools < MaxPools
    /\ \E testing \in TestingArrays, do_deriv \in BOOLEAN, do_unc \in BOOLEAN,
          processes \in ProcessesArgs :
         /\ args' = Some([op |-> "predict", testing |-> testing, do_deriv |-> do_deriv,
                          do_unc |-> do_unc, processes |-> processes])
         /\ IF PredictArgsOk(testing, processes)
            THEN /\ p' = Some(Pool(processes))
                 /\ pools' = pools + 1
                 /\ tasks' = PredictTaskList
                 /\ pc' = "predict_wait"
                 /\ ret' = None
            ELSE /\ ret' = Failure("predict", "AssertionError")
                 /\ tasks' = <<>>
                 /\ UNCHANGED <<p, pools, pc>>
    /\ acc' = None
    /\ order' = <<>>
    /\ likelihood_theta_vals' = None
    /\ synced' = 0
    /\ UNCHANGED <<other, ctor, built, self_vars>>

\* Faulty variant of PredictReturn: the engines the tasks worked on are put
\* back as self.emulators, in the order the tasks finished.
PredictReturnRebinding ==
    /\ pc = "predict_wait"
    /\ AllFinished
    /\ ret' = IF Raised # {} THEN Failure("predict", "TaskError")
              ELSE IF Len(tasks) = 0 THEN Failure("predict", "ValueError")
              ELSE Success("predict",
                           PredictValue(StarmapResult, args[1].do_deriv, args[1].do_unc))
    /\ emulators' = [k \in 1..Len(tasks) |-> tasks[order[k]].gp]
    /\ pc' = "idle"
    /\ p' = None
    /\ UNCHANGED <<other, ctor, built, n_emulators, n, D, acc, args, pools, tasks, order,
                   likelihood_theta_vals, synced>>

\* Lines 224-235: starmap returns, the triples are repackaged and returned.
PredictReturn ==
    /\ pc = "predict_wait"
    /\ AllFinished
    /\ ret' = IF Raised # {} THEN Failure("predict", "TaskError")
              ELSE IF Len(tasks) = 0 THEN Failure("predict", "ValueError")
              ELSE Success("predict",
                           PredictValue(StarmapResult, args[1].do_deriv, args[1].do_unc))
    /\ pc' = "idle"
    /\ p' = None
    /\ UNCHANGED <<other, ctor, built, self_vars, acc, args, pools, tasks, order,
                   likelihood_theta_vals, synced>>

\* The caller is done with the value returned (or the exception raised) by
\* the call that ended; the call's locals are gone with it.
DropResult ==
    /\ CanCall
    /\ ret # None
    /\ ret' = None
    /\ args' = None
    /\ tasks' = <<>>
    /\ order' = <<>>
    /\ acc' = None
    /\ UNCHANGED <<other, ctor, built, self_vars, pc, pools, p,
                   likelihood_theta_vals, synced>>

\* ------------------------------------------------ specification: the calls
\* The collections the two operations are exercised on, as the constructor
\* leaves them: every number of target rows with the largest D, and every D
\* with one target row, given as a 1D array.
CallData ==
    {<<Array(<<MaxDim, MaxD>>, 100), Array(<<m, MaxDim>>, 0)>> : m \in 0..MaxEmulators}
    \cup {<<Array(<<MaxDim, d>>, 100), Array(<<MaxDim>>, 0)>> : d \in 0..MaxD}

Init ==
    \E data \in CallData :
       LET inputs == data[1]
           targets == data[2]
           r == MultiOutputGP_init(inputs, targets) IN
       /\ ctor = Some([inputs |-> inputs, targets |-> targets])
       /\ built = "yes"
       /\ emulators = r.emulators
       /\ n_emulators = r.scalars.n_emulators
       /\ n = r.scalars.n
       /\ D = r.scalars.D
       /\ acc = None /\ pc = "idle" /\ args = None
       /\ pools = 0 /\ p = None /\ tasks = <<>> /\ order = <<>>
       /\ likelihood_theta_vals = None /\ synced = 0 /\ ret = None
       /\ other = NoOther

Next ==
    \/ get_n_emulators \/ get_n \/ get_D
    \/ learn_hyperparameters \/ TaskStart \/ FitTaskDone \/ TaskRaise
    \/ FitGather \/ FitSync \/ FitReturn
    \/ predict \/ PredictTaskDone \/ PredictReturn
    \/ DropResult

Spec == Init /\ [][Next]_vars

\* ------------------------------------ a second thread calling predict
\* While the first thread is in learn_hyperparameters, a second thread calls
\* mogp.predict(testing) on the same object, with the default flags and
\* processes.  Nothing in the class keeps the two apart.

\* One element of the list of line 224: the engine the tuple refers to (until
\* the task is pickled, as it was at the call), whether a worker has taken it,
\* how many engines the first thread's loop of lines 207-208 had gone through
\* when the task was pickled, and its result.
OtherTask(gp) == [gp |-> gp, st |-> "pending", at |-> 0, res |-> None]

OtherRunning == {i \in 1..Len(other.tasks) : other.tasks[i].st = "running"}
OtherPending == {i \in 1..Len(other.tasks) : other.tasks[i].st = "pending"}
OtherRaised == {i \in 1..Len(other.tasks) : other.tasks[i].st = "raised"}

\* The query arrays of the second thread: of the right width, and one not.
OtherTestingArrays ==
    {Array(<<q, D>>, 200) : q \in 1..MaxQuery} \cup {Array(<<1, D + 1>>, 200)}

\* Lines 215-224 in the second thread: the assertions, the Pool, and the list
\* of (gp, testing) tuples, which refer to the engines of self.emulators.
OtherPredict ==
    /\ built = "yes"
    /\ other.pc = "idle"
    /\ other.ret = None
    /\ \E testing \in OtherTestingArrays :
         IF PredictArgsOk(testing, None)
         THEN /\ other' = [pc |-> "predict_wait",
                           testing |-> Some(testing),
                           tasks |-> [i \in 1..Len(emulators) |-> OtherTask(emulators[i])],
                           ret |-> None]
              /\ pools' = pools + 1
         ELSE /\ other' = [other EXCEPT !.testing = Some(testing),
                                        !.ret = Failure("predict", "AssertionError")]
              /\ UNCHANGED pools
    /\ UNCHANGED <<ctor, built, self_vars, acc, pc, args, p, tasks, order,
                   likelihood_theta_vals, synced, ret>>

\* Faulty variant of OtherTaskStart: the worker gets the engine as it was when
\* predict was called, as if the list held copies made at the call.
OtherTaskStartAtCall ==
    /\ other.pc = "predict_wait"
    /\ OtherPending # {}
    /\ Cardinality(OtherRunning) < CpuCount
    /\ LET i == CHOOSE i \in OtherPending : \A j \in OtherPending : i <= j IN
       other' = [other EXCEPT !.tasks[i].st = "running", !.tasks[i].at = synced]
    /\ UNCHANGED <<ctor, built, self_vars, acc, call_vars>>

\* Line 224: the Pool sends the next task of the list to a free worker.  The
\* tuple is pickled as it is sent, so the worker's copy of the engine is the
\* collection's engine as it is at that moment, not as it was at the call.
OtherTaskStart ==
    /\ other.pc = "predict_wait"
    /\ OtherPending # {}
    /\ Cardinality(OtherRunning) < CpuCount
    /\ LET i == CHOOSE i \in OtherPending : \A j \in OtherPending : i <= j IN
       other' = [other EXCEPT !.tasks[i].st = "running",
                              !.tasks[i].gp = emulators[i],
                              !.tasks[i].at = synced]
    /\ UNCHANGED <<ctor, built, self_vars, acc, call_vars>>

\* A running predict task of the second thread returns its triple.
OtherTaskDone ==
    /\ other.pc = "predict_wait"
    /\ \E i \in OtherRunning :
         other' = [other EXCEPT
                      !.tasks[i].st = "done",
                      !.tasks[i].res = Some(GP_predict(other.tasks[i].gp,
                                                       other.testing[1]))]
    /\ UNCHANGED <<ctor, built, self_vars, acc, call_vars>>

\* A running predict task of the second thread raises.
OtherTaskRaise ==
    /\ other.pc = "predict_wait"
    /\ \E i \in OtherRunning : other' = [other EXCEPT !.tasks[i].st = "raised"]
    /\ UNCHANGED <<ctor, built, self_vars, acc, call_vars>>

\* Lines 224-235 in the second thread: starmap returns, the triples are
\* repackaged and returned (both flags are True).
OtherPredictReturn ==
    /\ other.pc = "predict_wait"
    /\ \A i \in 1..Len(other.tasks) : other.tasks[i].st \in {"done", "raised"}
    /\ other' =
          [other EXCEPT
              !.pc = "returned",
              !.ret = IF OtherRaised # {} THEN Failure("predict", "TaskError")
                      ELSE IF Len(other.tasks) = 0
                      THEN Failure("predict", "ValueError")
                      ELSE Success("predict",
                                   PredictValue([i \in 1..Len(other.tasks) |->
                                                    other.tasks[i].res[1]],
                                                TRUE, TRUE))]
    /\ UNCHANGED <<ctor, built, self_vars, acc, call_vars>>

\* ------------------------------------- specification: two threads, one object
\* The collection of the class docstring (two points in three variables, two
\* target rows) after a learn_hyperparameters call has fitted its engines;
\* the Pool of that call is still open.
InitConcurrent ==
    LET inputs == Array(<<2, 3>>, 100)
        targets == Array(<<2, 2>>, 0)
        r == MultiOutputGP_init(inputs, targets) IN
    /\ ctor = Some([inputs |-> inputs, targets |-> targets])
    /\ built = "yes"
    /\ \E fitted \in [1..Len(r.emulators) -> ThetaVecs(r.emulators[1])] :
          emulators = [i \in 1..Len(r.emulators) |->
                          GP_loglikelihood(r.emulators[i], fitted[i])]
    /\ n_emulators = r.scalars.n_emulators
    /\ n = r.scalars.n
    /\ D = r.scalars.D
    /\ acc = None /\ pc = "idle" /\ args = None
    /\ pools = 1 /\ p = None /\ tasks = <<>> /\ order = <<>>
    /\ likelihood_theta_vals = None /\ synced = 0 /\ ret = None
    /\ other = NoOther

\* The first thread makes one learn_hyperparameters call, the second one
\* predict call, their steps interleaved in every way.
NextConcurrent ==
    \/ learn_hyperparameters \/ TaskStart \/ FitTaskDone \/ TaskRaise
    \/ FitGather \/ FitSync \/ FitReturn
    \/ OtherPredict \/ OtherTaskStart \/ OtherTaskDone \/ OtherTaskRaise
    \/ OtherPredictReturn

SpecConcurrent == InitConcurrent /\ [][NextConcurrent]_vars

\* ================================================================== claims
\* What the claims speak of.
FitOk == ret # None /\ ret[1].op = "fit" /\ ret[1].status = "ok"
PredictOk == ret # None /\ ret[1].op = "predict" /\ ret[1].status = "ok"
\* The call that ended got past its assertions.
Dispatched == ret # None /\ ret[1].error # "AssertionError"
\* Row i of the targets the constructor was given (a 1D array is one row).
CtorRow(i) == SubSeq(ctor[1].targets.data, (i - 1) * n + 1, i * n)

\* C1: whenever learn_hyperparameters returns, it returns exactly n_emulators
\* (score, theta) pairs, and the pair at index i is the result of the task that
\* was given the engine of target row i, whatever number of processes was used
\* and whatever order the tasks finished in.
C1_FitResultsInEngineOrder ==
    FitOk =>
        /\ Len(ret[1].value) = n_emulators
        /\ Len(tasks) = n_emulators
        /\ \A i \in 1..n_emulators :
              /\ tasks[i].gp.targets.data = CtorRow(i)
              /\ emulators[i].targets.data = CtorRow(i)
              /\ tasks[i].st = "done"
              /\ ret[1].value[i] = tasks[i].res[1]

\* C1 witness: two engines, two workers, the second task finished first, the
\* two results differ, and the call returned.
C1_Witness ==
    /\ FitOk
    /\ n_emulators = 2
    /\ args[1].processes = Some(2)
    /\ order = <<2, 1>>
    /\ ret[1].value[1] # ret[1].value[2]

\* C2: after learn_hyperparameters returned, engine i of the collection holds
\* the parameter vector returned at index i; and until the loop of lines
\* 207-208 reaches it, an engine of the collection is as it was when the tasks
\* were dispatched (what a task does to its copy does not come back).
C2_EnginesHoldReturnedParams ==
    /\ FitOk => \A i \in 1..n_emulators :
                    emulators[i].theta = Some(ret[1].value[i][2])
    /\ pc \in {"fit_wait", "fit_sync"} =>
          \A i \in 1..Len(emulators) : i > synced => emulators[i] = tasks[i].gp

\* C2 witness: a second fit returned and left an engine, fitted before, with
\* other parameters than it had when the tasks were dispatched.
C2_Witness ==
    /\ FitOk
    /\ n_emulators = 2
    /\ tasks[1].gp.theta # None
    /\ tasks[1].gp.theta # emulators[1].theta
    /\ emulators[1].theta # emulators[2].theta

\* The number of query points of the predict call in hand.
NQuery == args[1].testing.shape[1]
\* Slot k (1 mean, 2 variance, 3 derivative) of what task i returned.
TaskSlot(i, k) == tasks[i].res[1][k]
\* Slot k of what predict returned has one row per engine, row i being what
\* engine i's task returned.
RowsAreTaskOutputs(k) ==
    /\ ret[1].value[k].shape[1] = n_emulators
    /\ \A i \in 1..n_emulators : NpRow(ret[1].value[k], i) = TaskSlot(i, k)

\* C3: predict returns a mean and a variance array of shape (n_emulators,
\* n_query) and a derivative array of shape (n_emulators, n_query, D) (a slot
\* its flag suppressed aside), row i of each being the output of the task given
\* engine i, whatever order the tasks finished in; and it does return them
\* whenever the collection has an engine and no task raised.
C3_PredictStackedInEngineOrder ==
    /\ PredictOk =>
          /\ Len(tasks) = n_emulators
          /\ \A i \in 1..n_emulators :
                tasks[i].gp = emulators[i] /\ emulators[i].targets.data = CtorRow(i)
          /\ ret[1].value[1].shape = <<n_emulators, NQuery>>
          /\ RowsAreTaskOutputs(1)
          /\ ret[1].value[2] # None =>
                /\ ret[1].value[2].shape = <<n_emulators, NQuery>>
                /\ RowsAreTaskOutputs(2)
          /\ ret[1].value[3] # None =>
                /\ ret[1].value[3].shape = <<n_emulators, NQuery, D>>
                /\ RowsAreTaskOutputs(3)
    /\ (pc = "idle" /\ Dispatched /\ ret[1].op = "predict"
           /\ Raised = {} /\ n_emulators >= 1) => PredictOk

\* C3 witness: two fitted engines with different parameters, a query point,
\* the second task finished first, and all three arrays were returned.
C3_Witness ==
    /\ PredictOk
    /\ n_emulators = 2
    /\ NQuery >= 1
    /\ D >= 1
    /\ order = <<2, 1>>
    /\ emulators[1].theta # None
    /\ emulators[1].theta # emulators[2].theta
    /\ ret[1].value[2] # None
    /\ ret[1].value[3] # None

\* C4: the variance slot of what predict returns is None exactly when do_unc
\* is false and the derivative slot exactly when do_deriv is false; the mean
\* and every slot not suppressed are the stacked task outputs, the same under
\* every flag combination; and the tasks are one per engine on (gp, testing),
\* each computing all three outputs, whatever the flags are.
C4_FlagsOnlySuppress ==
    /\ PredictOk =>
          /\ ret[1].value[2] = None <=> ~args[1].do_unc
          /\ ret[1].value[3] = None <=> ~args[1].do_deriv
          /\ \A k \in 1..3 :
                ret[1].value[k] # None =>
                   ret[1].value[k] =
                      [shape |-> <<Len(tasks)>> \o TaskSlot(1, k).shape,
                       data |-> Concat([i \in 1..Len(tasks) |-> TaskSlot(i, k).data])]
    /\ (args # None /\ args[1].op = "predict" /\ (pc = "predict_wait" \/ Dispatched)) =>
          /\ Len(tasks) = Len(emulators)
          /\ \A i \in 1..Len(tasks) :
                /\ tasks[i].gp = emulators[i]
                /\ tasks[i].st = "done" =>
                      tasks[i].res[1] = GP_predict(emulators[i], args[1].testing)

\* C4 witness: a predict with the variance suppressed and the derivative kept
\* returned, on fitted engines and at least one query point.
C4_Witness ==
    /\ PredictOk
    /\ ~args[1].do_unc /\ args[1].do_deriv
    /\ ret[1].value[2] = None /\ ret[1].value[3] # None
    /\ n_emulators = 2 /\ NQuery >= 1 /\ D >= 1
    /\ emulators[1].theta # None

\* The arguments the constructor was given, and what makes them valid.
CtorInputs == ctor[1].inputs
CtorTargets == ctor[1].targets
CtorRankOk == Len(CtorInputs.shape) = 2 /\ Len(CtorTargets.shape) \in {1, 2}
\* The number of target rows, and the length of a target row.
CtorRows == IF Len(CtorTargets.shape) = 1 THEN 1 ELSE CtorTargets.shape[1]
CtorRowLen == CtorTargets.shape[Len(CtorTargets.shape)]

\* C5: constructing from inputs of shape (n, D) and targets of n_emulators rows
\* of length n succeeds, the three accessors return n_emulators, n and D, and
\* the collection owns one unfitted engine per target row, in row order, each
\* bound to the inputs and to its row.
C5_AccessorsAndEngines ==
    (ctor # None /\ CtorRankOk /\ CtorInputs.shape[1] = CtorRowLen) =>
        /\ built = "yes"
        /\ n_emulators = CtorRows
        /\ n = CtorInputs.shape[1]
        /\ D = CtorInputs.shape[2]
        /\ acc # None =>
              \/ acc[1] = <<"get_n_emulators", CtorRows>>
              \/ acc[1] = <<"get_n", CtorInputs.shape[1]>>
              \/ acc[1] = <<"get_D", CtorInputs.shape[2]>>
        /\ Len(emulators) = CtorRows
        /\ \A i \in 1..CtorRows :
              /\ emulators[i].inputs = CtorInputs
              /\ emulators[i].targets =
                    [shape |-> <<CtorRowLen>>,
                     data |-> SubSeq(CtorTargets.data, (i - 1) * CtorRowLen + 1,
                                     i * CtorRowLen)]
              /\ emulators[i].theta = None

\* C5 witness: two target rows of length one over two input variables, and
\* get_n_emulators returned 2.
C5_Witness ==
    /\ built = "yes"
    /\ CtorInputs.shape = <<1, 2>>
    /\ CtorTargets.shape = <<2, 1>>
    /\ acc = Some(<<"get_n_emulators", 2>>)

\* C6: constructing with 1D targets of length n leaves what constructing with
\* the 2D targets of shape (1, n) holding the same values leaves: it succeeds
\* or fails alike, and on success there is one engine, bound to that target
\* vector, and the same n and D.
C6_Rank1AsOneRow ==
    (ctor # None /\ Len(CtorTargets.shape) = 1) =>
        LET as_row == [shape |-> <<1, CtorTargets.shape[1]>>, data |-> CtorTargets.data]
            r == MultiOutputGP_init(CtorInputs, as_row)
        IN /\ built = "yes" <=> r.ok
           /\ built = "yes" =>
                 /\ emulators = r.emulators
                 /\ <<n_emulators, n, D>> = <<r.scalars.n_emulators, r.scalars.n, r.scalars.D>>
                 /\ n_emulators = 1
                 /\ Len(emulators) = 1
                 /\ emulators[1].targets = CtorTargets

\* C6 witness: a collection built from a 1D targets array of length two.
C6_Witness ==
    /\ built = "yes"
    /\ CtorTargets.shape = <<2>>
    /\ n = 2

\* C7: with 2D inputs and 1D or 2D targets whose last dimension is not the
\* number of inputs rows, the constructor raises ValueError, constructs no
\* engine and leaves no collection.
C7_MismatchRaises ==
    (ctor # None /\ CtorRankOk /\ CtorInputs.shape[1] # CtorRowLen) =>
        /\ built = "error"
        /\ ret # None /\ ret[1].status = "error"
        /\ ret[1].error = "ValueError: first dimension of inputs"
        /\ emulators = <<>>

\* C7 witness: inputs with two rows, 2D targets with two rows of length one:
\* the rows agree in number, not in length.
C7_Witness ==
    /\ built = "error"
    /\ CtorInputs.shape = <<2, 1>>
    /\ CtorTargets.shape = <<2, 1>>

\* The arguments of a call break one of its assertions.
BadProcesses(a) == a.processes # None /\ a.processes[1] <= 0
BadFitArgs(a) ==
    /\ a.op = "fit"
    /\ \/ a.n_tries <= 0
       \/ BadProcesses(a)
       \/ a.x0 # None /\ a.x0[1].len # D + 2
BadPredictArgs(a) ==
    /\ a.op = "predict"
    /\ \/ Len(a.testing.shape) # 2
       \/ Len(a.testing.shape) = 2 /\ a.testing.shape[2] # D
       \/ BadProcesses(a)

\* C8: a call of learn_hyperparameters with n_tries <= 0, processes <= 0 or an
\* x0 of length other than D + 2, and a call of predict with a testing array
\* that is not 2D or whose second dimension is not D, or with processes <= 0,
\* ends at once in an error: no Pool is created, no task is dispatched, and
\* every engine is left as it was.
C8_ValidationBeforeDispatch ==
    [][(Ready /\ args' # None /\ (BadFitArgs(args'[1]) \/ BadPredictArgs(args'[1]))) =>
          /\ ret' # None /\ ret'[1].status = "error" /\ ret'[1].value = None
          /\ pc' = "idle"
          /\ pools' = pools
          /\ p' = None
          /\ tasks' = <<>>
          /\ emulators' = emulators]_vars

\* C8 witness: after a fit, a predict call with a testing array that is not 2D
\* failed; the one Pool there is is the fit's, and the engines are fitted.
C8_Witness ==
    /\ ret # None /\ ret[1].op = "predict" /\ ret[1].error = "AssertionError"
    /\ Len(args[1].testing.shape) # 2
    /\ pools = 1 /\ tasks = <<>>
    /\ n_emulators = 2
    /\ emulators[1].theta # None

\* Engine i's task of the fit that ended reported the sentinel score.
Degraded(i) == tasks[i].st = "done" /\ tasks[i].res[1][1] = Sentinel

\* C9: a fit in which some engine's task reported the sentinel score 9999 and
\* no task raised returns normally; the result at that engine's index is the
\* sentinel with the parameters the task reported, and every other engine has
\* the result of its own task, at its index and as its parameters.
C9_DegradedFitIsData ==
    (pc = "idle" /\ Dispatched /\ ret[1].op = "fit" /\ Raised = {}
        /\ \E i \in 1..Len(tasks) : Degraded(i)) =>
        /\ FitOk
        /\ \A i \in 1..n_emulators :
              /\ Degraded(i) => /\ ret[1].value[i][1] = Sentinel
                                /\ ret[1].value[i][2] = tasks[i].res[1][2]
              /\ ~Degraded(i) => /\ ret[1].value[i] = tasks[i].res[1]
                                 /\ ret[1].value[i][1] = Score(ret[1].value[i][2])
                                 /\ emulators[i].theta = Some(tasks[i].res[1][2])

\* C9 witness: of two engines the first came back with the sentinel, the
\* second with a proper score, and the second holds its parameters.
C9_Witness ==
    /\ FitOk
    /\ n_emulators = 2
    /\ Degraded(1) /\ ~Degraded(2)
    /\ ret[1].value[1][1] = Sentinel
    /\ ret[1].value[2][1] < Sentinel
    /\ emulators[2].theta = Some(ret[1].value[2][2])

\* C10: when a task of a call raised, the call ends in an error and returns
\* nothing, however many of the other tasks returned a result; it never goes
\* on to the loop of lines 207-208; and no task is ever run twice.
C10_TaskFailureIsFatal ==
    /\ (pc = "idle" /\ Raised # {}) =>
          /\ ret # None
          /\ ret[1].status = "error"
          /\ ret[1].value = None
    /\ pc = "fit_sync" => Raised = {}
    /\ \A i \in 1..Len(tasks) : tasks[i].runs <= 1

\* C10 witness: of two fit tasks the first returned a result and the second
\* raised; the call ended in an error.
C10_Witness ==
    /\ pc = "idle"
    /\ ret # None /\ ret[1].op = "fit" /\ ret[1].status = "error"
    /\ Len(tasks) = 2
    /\ tasks[1].st = "done"
    /\ tasks[2].st = "raised"

\* C11: an engine of the collection is written only by the loop of lines
\* 207-208 of learn_hyperparameters, and every such write happens after
\* starmap returned: all n_emulators fit tasks of the call have finished, none
\* is pending or running, none raised.  No other step (a task starting or
\* ending, predict, an accessor, a failing call) writes an engine.
C11_WritesOnlyAfterAllFitTasks ==
    [][emulators' # emulators =>
          /\ pc = "fit_sync"
          /\ args[1].op = "fit"
          /\ Len(tasks) = n_emulators
          /\ \A i \in 1..Len(tasks) : tasks[i].st = "done"
          /\ Len(order) = n_emulators
          /\ likelihood_theta_vals # None]_vars

\* C11 witness: a fit of two engines whose second task finished first and whose
\* first engine was then written with parameters it did not have at dispatch,
\* the second engine not yet.
C11_Witness ==
    /\ pc = "fit_sync"
    /\ n_emulators = 2
    /\ order = <<2, 1>>
    /\ synced = 1
    /\ emulators[1] # tasks[1].gp
    /\ emulators[2] = tasks[2].gp
    /\ emulators[2].theta # Some(likelihood_theta_vals[1][2][2])

\* C12: a call that got past its assertions hands starmap exactly n_emulators
\* tasks, task i holding the engine of target row i; no task is run twice; and
\* once the call has returned (normally or with a task's exception) every one
\* of them has been run once and has finished, none is pending or running.
C12_OneTaskPerEngineAllCompleted ==
    /\ (pc # "idle" \/ Dispatched) =>
          /\ Len(tasks) = n_emulators
          /\ \A i \in 1..Len(tasks) :
                /\ tasks[i].gp.targets.data = CtorRow(i)
                /\ tasks[i].gp.inputs = emulators[i].inputs
                /\ tasks[i].runs <= 1
    /\ pc \in {"idle", "fit_sync"} => Running = {} /\ Pending = {}
    /\ (pc = "idle" /\ Dispatched) =>
          /\ Len(order) = n_emulators
          /\ \A i \in 1..Len(tasks) :
                /\ tasks[i].runs = 1
                /\ tasks[i].st \in {"done", "raised"}
                /\ \E k \in 1..Len(order) : order[k] = i

\* C12 witness: of two predict tasks running side by side the first raised,
\* the second went on to return its triple, and only then did the call end.
C12_Witness ==
    /\ pc = "idle"
    /\ Dispatched
    /\ ret[1].op = "predict"
    /\ n_emulators = 2
    /\ p = None
    /\ args[1].processes = Some(2)
    /\ order = <<1, 2>>
    /\ tasks[1].st = "raised"
    /\ tasks[2].st = "done"
    /\ tasks[2].res # None

\* C13: every call closes the Pool it created before it returns, so that
\* whenever the caller is between calls, whatever calls it made and however
\* they ended, no Pool they created is still open.  (Neither method calls
\* close, terminate or join, or uses the Pool as a context manager: this does
\* not hold.)
C13_PoolReleasedOnReturn == pc = "idle" => pools = 0

\* C14: no step of a predict call changes the collection: from the call,
\* through the tasks starting, returning or raising, to the return or the
\* exception (AssertionError, a task's exception, ValueError), the engines,
\* their order and fitted parameters, and n_emulators, n and D stay as they
\* were.
C14_PredictLeavesCollection ==
    [][(\/ pc = "predict_wait"
        \/ pc' = "predict_wait"
        \/ (args' # None /\ args'[1].op = "predict" /\ ret' # ret))
       => /\ emulators' = emulators
          /\ n_emulators' = n_emulators
          /\ n' = n
          /\ D' = D]_vars

\* C14 witness: a predict on two fitted engines ended with the exception of a
\* task, the other task having finished first, and the engines are those the
\* tasks were given.
C14_Witness ==
    /\ pc = "idle"
    /\ ret # None
    /\ ret[1].op = "predict"
    /\ ret[1].error = "TaskError"
    /\ n_emulators = 2
    /\ order = <<2, 1>>
    /\ emulators[1].theta # None
    /\ emulators[2].theta # None
    /\ \A i \in 1..2 : emulators[i] = tasks[i].gp

\* C15: every collection the constructor returns has n_emulators >= 1, n >= 1
\* and D >= 1, one engine per target row and every engine's target vector of
\* length n; the constructor does not return a collection for arguments that
\* would give n_emulators = 0, n = 0 or D = 0.  (Lines 101-116 test ranks and
\* the agreement of the two shapes, never a size: this does not hold.)
C15_SizesAtLeastOne ==
    built = "yes" =>
        /\ n_emulators >= 1
        /\ n >= 1
        /\ D >= 1
        /\ Len(emulators) = n_emulators
        /\ \A i \in 1..Len(emulators) : emulators[i].targets.shape = <<n>>

\* C16: in every state reached from a constructed collection by calls of
\* learn_hyperparameters, predict and the accessors, failing calls included,
\* the collection owns exactly n_emulators engines, engine i bound to the
\* inputs and to target row i the constructor was given, and n_emulators, n, D
\* (and what an accessor returns) are the values derived at construction.
C16_EnginesAndScalarsKept ==
    /\ n_emulators = CtorRows
    /\ n = CtorInputs.shape[1]
    /\ D = CtorInputs.shape[2]
    /\ Len(emulators) = n_emulators
    /\ \A i \in 1..Len(emulators) :
          /\ emulators[i].inputs = CtorInputs
          /\ emulators[i].targets =
                [shape |-> <<CtorRowLen>>,
                 data |-> SubSeq(CtorTargets.data, (i - 1) * CtorRowLen + 1,
                                 i * CtorRowLen)]
    /\ acc # None =>
          acc[1] \in {<<"get_n_emulators", CtorRows>>,
                      <<"get_n", CtorInputs.shape[1]>>,
                      <<"get_D", CtorInputs.shape[2]>>}

\* C16 witness: after a fit that gave the two engines different parameters and
\* a predict that ended with a task's exception, get_n_emulators returned 2.
C16_Witness ==
    /\ acc = Some(<<"get_n_emulators", 2>>)
    /\ pools = 2
    /\ ret # None
    /\ ret[1].op = "predict"
    /\ ret[1].status = "error"
    /\ emulators[1].theta # None
    /\ emulators[2].theta # None
    /\ emulators[1].theta # emulators[2].theta

\* The engines before and after the first thread's fit: engine i as the fit
\* found it, and as the loop of lines 207-208 leaves it.
PreFit(i) == IF Len(tasks) = 0 THEN emulators[i] ELSE tasks[i].gp
PostFit(i) == GP_loglikelihood(PreFit(i), tasks[i].res[1][2])
\* What predict returns (both flags True) when its tasks work on these engines.
PredictionOf(engines, testing) ==
    PredictValue([i \in 1..Len(engines) |-> GP_predict(engines[i], testing)],
                 TRUE, TRUE)

\* C17: a predict call that runs while another thread is in
\* learn_hyperparameters on the same object is not kept apart from it: the
\* engine copy each of its tasks works on is the collection's engine at the
\* moment the task was pickled, that is, already re-synchronised if the loop
\* of lines 207-208 had passed that engine by then and as before the fit if
\* not, and what predict returns is computed from those copies.  (The witness
\* is the interleaving the claim speaks of.)
C17_PredictSeesLoopProgress ==
    /\ \A i \in 1..Len(other.tasks) :
          other.tasks[i].st # "pending" =>
              /\ other.tasks[i].at \in 0..n_emulators
              /\ other.tasks[i].gp = IF i <= other.tasks[i].at
                                     THEN PostFit(i) ELSE PreFit(i)
    /\ (other.ret # None /\ other.ret[1].status = "ok") =>
          other.ret[1].value =
              PredictionOf([i \in 1..Len(other.tasks) |-> other.tasks[i].gp],
                           other.testing[1])

\* C17 witness: both calls have returned normally; the fit changed the
\* parameters of both engines; the first predict task worked on its engine as
\* re-synchronised, the second on its engine as before the fit; and what
\* predict returned is neither the prediction of the collection before the fit
\* nor that of the collection after it.
C17_Witness ==
    /\ FitOk
    /\ other.pc = "returned"
    /\ other.ret[1].status = "ok"
    /\ n_emulators = 2
    /\ \A i \in 1..2 : PreFit(i) # PostFit(i) /\ emulators[i] = PostFit(i)
    /\ other.tasks[1].gp = PostFit(1)
    /\ other.tasks[2].gp = PreFit(2)
    /\ other.ret[1].value # PredictionOf([i \in 1..2 |-> PreFit(i)], other.testing[1])
    /\ other.ret[1].value # PredictionOf(emulators, other.testing[1])

\* C18: when a fit task raises, learn_hyperparameters ends with that exception
\* without having entered the loop of lines 207-208: it is never in the loop
\* while a task of the call has raised, and after the failed call every engine
\* is exactly as it was when the call was made, also the engines whose own
\* task returned a result.
C18_FailedFitLeavesEngines ==
    /\ pc = "fit_sync" => Raised = {}
    /\ (pc \in {"fit_wait", "idle"} /\ args # None /\ args[1].op = "fit"
           /\ Raised # {}) =>
          /\ synced = 0
          /\ likelihood_theta_vals = None
          /\ \A i \in 1..Len(emulators) : emulators[i] = tasks[i].gp
    /\ (pc = "idle" /\ Dispatched /\ ret[1].op = "fit" /\ Raised # {}) =>
          ret[1].status = "error"

\* C18 witness: a fit of two fitted engines failed because the second task
\* raised; the first task had returned parameters other than those its engine
\* holds, and the engine still holds the old ones.
C18_Witness ==
    /\ pc = "idle"
    /\ ret # None
    /\ ret[1].op = "fit"
    /\ ret[1].error = "TaskError"
    /\ n_emulators = 2
    /\ tasks[1].st = "done"
    /\ tasks[2].st = "raised"
    /\ emulators[1].theta # None
    /\ emulators[1].theta # Some(tasks[1].res[1][2])
    /\ emulators[1] = tasks[1].gp

====
